---- MODULE Spec2Model ----
(***************************************************************************)
(* Day 12 of the repository (src/src/bin/12.rs): the polyomino packing     *)
(* feasibility solver.  Shapes are Vec<(i32, i32)>, modelled as sequences  *)
(* of <<x, y>> pairs; Rust's 0-based indices are kept and translated to    *)
(* TLA+'s 1-based sequences where a sequence is read.                      *)
(***************************************************************************)
EXTENDS Integers, Sequences, FiniteSets, TLC

VARIABLES
    pc,               \* position of the driver: part_one's loop, or a harness
    shapes,           \* part_one: shapes (Vec<Present>, each its cells)
    variants_list,    \* part_one: variants_list
    valid_regions,    \* part_one: valid_regions
    region,           \* part_one: the region of the current iteration
    pieces_to_place,  \* part_one: pieces_to_place, <<shape_idx, count>> pairs
    grid,             \* the Grid of the current region
    stack,            \* call stack of can_fit_presents, innermost frame last
    ret,              \* <<b>> when a call has returned b to a caller that has
                      \* not yet read it, else <<>>
    places,           \* history: number of Grid::place calls for this region
    last,             \* history: outcome of the region handled last
    ti,               \* rotations_and_flips: index of the next transformation
    unique_variants,  \* rotations_and_flips: unique_variants
    held              \* history: placements made and not yet removed

vars == <<pc, shapes, variants_list, valid_regions, region, pieces_to_place,
          grid, stack, ret, places, last, ti, unique_variants, held>>

(***************************************************************************)
(* Bounds of the model.                                                    *)
(***************************************************************************)
MaxW == 3
MaxH == 2
MaxCount == 2
MaxValid == 2
MaxHeld == 2
MaxLen == 2
BoxW == 3
BoxH == 2
Margin == 1
LogSteps == 17

(***************************************************************************)
(* Program constants.                                                      *)
(***************************************************************************)
NumTransforms == 8
WordBits == 64

NoLast == [op |-> "none"]

Range(s) == {s[i] : i \in DOMAIN s}

Min(S) == CHOOSE m \in S : \A n \in S : m <= n

RECURSIVE SumSeq(_)
SumSeq(s) == IF s = <<>> THEN 0 ELSE Head(s) + SumSeq(Tail(s))

RECURSIVE Flatten(_)
Flatten(ss) == IF ss = <<>> THEN <<>> ELSE Head(ss) \o Flatten(Tail(ss))

(***************************************************************************)
(* Present::from_lines.  A line is a sequence of one-character strings.    *)
(***************************************************************************)
RowCells(line, y) ==
    LET hit(x) == IF line[x] = "#" THEN <<(<<x - 1, y>>)>> ELSE <<>>
    IN  Flatten([x \in 1..Len(line) |-> hit(x)])

FromLines(lines) == Flatten([y \in 1..Len(lines) |-> RowCells(lines[y], y - 1)])

(***************************************************************************)
(* The transformation table of rotations_and_flips, 1-based.               *)
(***************************************************************************)
TransformTypo(t, c) ==
    CASE t = 1 -> <<c[1], c[2]>>
      [] t = 2 -> <<-c[2], c[1]>>
      [] t = 3 -> <<-c[1], -c[2]>>
      [] t = 4 -> <<c[2], -c[1]>>
      [] t = 5 -> <<-c[1], c[2]>>
      [] t = 6 -> <<c[2], c[2]>>
      [] t = 7 -> <<c[1], -c[2]>>
      [] t = 8 -> <<-c[2], -c[1]>>

TransformRepeated(t, c) ==
    CASE t = 1 -> <<c[1], c[2]>>
      [] t = 2 -> <<-c[2], c[1]>>
      [] t = 3 -> <<-c[1], -c[2]>>
      [] t = 4 -> <<c[2], -c[1]>>
      [] t = 5 -> <<-c[1], c[2]>>
      [] t = 6 -> <<c[2], c[1]>>
      [] t = 7 -> <<c[1], -c[2]>>
      [] t = 8 -> <<c[2], c[1]>>

Transform(t, c) ==
    CASE t = 1 -> <<c[1], c[2]>>
      [] t = 2 -> <<-c[2], c[1]>>
      [] t = 3 -> <<-c[1], -c[2]>>
      [] t = 4 -> <<c[2], -c[1]>>
      [] t = 5 -> <<-c[1], c[2]>>
      [] t = 6 -> <<c[2], c[1]>>
      [] t = 7 -> <<c[1], -c[2]>>
      [] t = 8 -> <<-c[2], -c[1]>>

(***************************************************************************)
(* The order of (i32, i32) tuples, and sort_unstable under it.  Elements   *)
(* that compare equal are equal values, so every sorting order of the      *)
(* unstable sort gives the same sequence.                                  *)
(***************************************************************************)
CoordLessXOnly(a, b) == a[1] < b[1]

CoordLess(a, b) == a[1] < b[1] \/ (a[1] = b[1] /\ a[2] < b[2])

RECURSIVE InsertCoord(_, _)
InsertCoord(c, s) ==
    IF s = <<>> THEN <<c>>
    ELSE IF CoordLess(Head(s), c) THEN <<Head(s)>> \o InsertCoord(c, Tail(s))
    ELSE <<c>> \o s

RECURSIVE SortUnstable(_)
SortUnstable(s) ==
    IF s = <<>> THEN <<>> ELSE InsertCoord(Head(s), SortUnstable(Tail(s)))

NormalizeNoSort(coords) ==
    IF coords = <<>> THEN <<>>
    ELSE LET min_x == Min({coords[i][1] : i \in DOMAIN coords})
             min_y == Min({coords[i][2] : i \in DOMAIN coords})
         IN  [i \in DOMAIN coords |-> <<coords[i][1] - min_x, coords[i][2] - min_y>>]

normalize(coords) ==
    IF coords = <<>> THEN <<>>
    ELSE LET min_x == Min({coords[i][1] : i \in DOMAIN coords})
             min_y == Min({coords[i][2] : i \in DOMAIN coords})
         IN  SortUnstable([i \in DOMAIN coords |->
                              <<coords[i][1] - min_x, coords[i][2] - min_y>>])

(***************************************************************************)
(* One iteration of the loop of rotations_and_flips over the table, and    *)
(* the whole function.                                                     *)
(***************************************************************************)
Contains(vec, item) == \E i \in DOMAIN vec : vec[i] = item

RotStepNoDedup(uv, cells, t) ==
    Append(uv, normalize([k \in DOMAIN cells |-> Transform(t, cells[k])]))

RotStep(uv, cells, t) ==
    LET transformed == [k \in DOMAIN cells |-> Transform(t, cells[k])]
        normalized  == normalize(transformed)
    IN  IF ~Contains(uv, normalized) THEN Append(uv, normalized) ELSE uv

RECURSIVE RotLoop(_, _, _)
RotLoop(uv, cells, t) ==
    IF t > NumTransforms THEN uv ELSE RotLoop(RotStep(uv, cells, t), cells, t + 1)

rotations_and_flips(cells) == RotLoop(<<>>, cells, 1)

(***************************************************************************)
(* Grid.  occupied is a Vec<u64>; a word is a natural number below 2^64    *)
(* and its bits are read and written arithmetically.  usize and i32        *)
(* arithmetic is done in the integers, so a difference that would pass     *)
(* below zero shows as a negative number.                                  *)
(***************************************************************************)
DivCeil(a, b) == (a + b - 1) \div b

Pow2(n) == 2 ^ n

GridNewStale(width, height) ==
    LET total_cells == width * height
        num_words   == DivCeil(total_cells, WordBits)
    IN  [width        |-> width,
         height       |-> height,
         occupied     |-> [w \in 1..num_words |-> 1],
         total_cells  |-> total_cells,
         filled_cells |-> 1]

GridNew(width, height) ==
    LET total_cells == width * height
        num_words   == DivCeil(total_cells, WordBits)
    IN  [width        |-> width,
         height       |-> height,
         occupied     |-> [w \in 1..num_words |-> 0],
         total_cells  |-> total_cells,
         filled_cells |-> 0]

TestBit(word, bit) == (word \div Pow2(bit)) % 2 = 1

is_occupied(g, x, y) ==
    LET idx  == y * g.width + x
        word == idx \div WordBits
        bit  == idx % WordBits
    IN  TestBit(g.occupied[word + 1], bit)

SetCellAlways(g, x, y, occ) ==
    LET idx  == y * g.width + x
        word == idx \div WordBits
        bit  == idx % WordBits
        old  == g.occupied[word + 1]
    IN  [g EXCEPT !.occupied[word + 1] =
            IF TestBit(old, bit) THEN old ELSE old + Pow2(bit)]

set_cell(g, x, y, occ) ==
    LET idx  == y * g.width + x
        word == idx \div WordBits
        bit  == idx % WordBits
        old  == g.occupied[word + 1]
    IN  [g EXCEPT !.occupied[word + 1] =
            IF occ
            THEN (IF TestBit(old, bit) THEN old ELSE old + Pow2(bit))
            ELSE (IF TestBit(old, bit) THEN old - Pow2(bit) ELSE old)]

CanPlaceNoRightEdge(g, shape, x, y) ==
    \A i \in DOMAIN shape :
        LET nx == x + shape[i][1]
            ny == y + shape[i][2]
        IN  /\ nx >= 0
            /\ ny >= 0
            /\ ny < g.height
            /\ ~is_occupied(g, nx, ny)

CanPlaceIgnoreOccupied(g, shape, x, y) ==
    \A i \in DOMAIN shape :
        LET nx == x + shape[i][1]
            ny == y + shape[i][2]
        IN  /\ nx >= 0
            /\ ny >= 0
            /\ nx < g.width
            /\ ny < g.height

can_place(g, shape, x, y) ==
    \A i \in DOMAIN shape :
        LET nx == x + shape[i][1]
            ny == y + shape[i][2]
        IN  /\ nx >= 0
            /\ ny >= 0
            /\ nx < g.width
            /\ ny < g.height
            /\ ~is_occupied(g, nx, ny)

RECURSIVE CanPlaceReadsNoBottomEdge(_, _, _, _, _)
CanPlaceReadsNoBottomEdge(g, shape, x, y, i) ==
    IF i > Len(shape) THEN <<>>
    ELSE LET nx == x + shape[i][1]
             ny == y + shape[i][2]
         IN  IF ~(nx >= 0 /\ ny >= 0 /\ nx < g.width) THEN <<>>
             ELSE <<(<<nx, ny>>)>> \o
                  (IF is_occupied(g, nx, ny) THEN <<>>
                   ELSE CanPlaceReadsNoBottomEdge(g, shape, x, y, i + 1))

\* Lines 164-175, the coordinates can_place passes to is_occupied, in the
\* order of the calls, from cell i of the shape on.  "&&" evaluates its
\* right operand only where the left one is true, and "all" stops at the
\* first cell whose closure returns false.
RECURSIVE CanPlaceReads(_, _, _, _, _)
CanPlaceReads(g, shape, x, y, i) ==
    IF i > Len(shape) THEN <<>>
    ELSE LET nx == x + shape[i][1]
             ny == y + shape[i][2]
         IN  IF ~(nx >= 0 /\ ny >= 0 /\ nx < g.width /\ ny < g.height) THEN <<>>
             ELSE <<(<<nx, ny>>)>> \o
                  (IF is_occupied(g, nx, ny) THEN <<>>
                   ELSE CanPlaceReads(g, shape, x, y, i + 1))

\* The loop "for &(dx, dy) in shape { self.set_cell(...) }" from cell i on.
RECURSIVE SetCells(_, _, _, _, _, _)
SetCells(g, shape, x, y, occ, i) ==
    IF i > Len(shape) THEN g
    ELSE SetCells(set_cell(g, x + shape[i][1], y + shape[i][2], occ),
                  shape, x, y, occ, i + 1)

PlaceNoCount(g, shape, x, y) == SetCells(g, shape, x, y, TRUE, 1)

PlaceCountNewBits(g, shape, x, y) ==
    LET set == SetCells(g, shape, x, y, TRUE, 1)
        new == {i \in DOMAIN shape : ~is_occupied(g, x + shape[i][1], y + shape[i][2])}
    IN  [set EXCEPT !.filled_cells = @ + Cardinality(new)]

place(g, shape, x, y) ==
    LET set == SetCells(g, shape, x, y, TRUE, 1)
    IN  [set EXCEPT !.filled_cells = @ + Len(shape)]

RemoveNoCount(g, shape, x, y) == SetCells(g, shape, x, y, FALSE, 1)

remove(g, shape, x, y) ==
    LET cleared == SetCells(g, shape, x, y, FALSE, 1)
    IN  [cleared EXCEPT !.filled_cells = @ - Len(shape)]

(***************************************************************************)
(* can_fit_presents.  The recursion is kept as an explicit call stack; a   *)
(* frame holds the call's arguments, the position of its three loops       *)
(* (y, x and v, the index of the variant) and where the call stands:       *)
(*   "entry"  the call was made, its body has not run yet;                 *)
(*   "loop"   at the head of the innermost loop, about to test (y, x, v);  *)
(*   "call"   the candidate (y, x, v) is placed, the recursive call runs.  *)
(* entry is history: the grid as it was when the call was made.            *)
(* A configuration c holds what the search reads and writes.               *)
(***************************************************************************)
Frame(piece_idx, pieces_remaining, total_cells_needed, g) ==
    [piece_idx          |-> piece_idx,
     pieces_remaining   |-> pieces_remaining,
     total_cells_needed |-> total_cells_needed,
     at |-> "entry", y |-> 0, x |-> 0, v |-> 0,
     entry |-> g]

Top(c) == c.stack[Len(c.stack)]

SetTop(c, f) == [c EXCEPT !.stack[Len(c.stack)] = f]

\* "return val": the frame is popped and the caller finds val.
Return(c, val) ==
    [c EXCEPT !.stack = SubSeq(c.stack, 1, Len(c.stack) - 1), !.ret = <<val>>]

ShapeVariants(c, f) == c.variants_list[c.pieces_to_place[f.piece_idx + 1][1] + 1]

NextCandidateFirstVariant(c, f) ==
    IF f.x + 1 < c.grid.width THEN [f EXCEPT !.at = "loop", !.v = 0, !.x = f.x + 1]
    ELSE [f EXCEPT !.at = "loop", !.v = 0, !.x = 0, !.y = f.y + 1]

NextCandidateWrapAround(c, f) ==
    IF f.v + 1 < Len(ShapeVariants(c, f)) THEN [f EXCEPT !.at = "loop", !.v = f.v + 1]
    ELSE IF f.x + 1 < c.grid.width THEN [f EXCEPT !.at = "loop", !.v = 0, !.x = f.x + 1]
    ELSE [f EXCEPT !.at = "loop", !.v = 0, !.x = 0, !.y = (f.y + 1) % c.grid.height]

NextCandidateColumnMajor(c, f) ==
    IF f.v + 1 < Len(ShapeVariants(c, f)) THEN [f EXCEPT !.at = "loop", !.v = f.v + 1]
    ELSE IF f.y + 1 < c.grid.height THEN [f EXCEPT !.at = "loop", !.v = 0, !.y = f.y + 1]
    ELSE IF f.x + 1 < c.grid.width
    THEN [f EXCEPT !.at = "loop", !.v = 0, !.y = 0, !.x = f.x + 1]
    ELSE [f EXCEPT !.at = "loop", !.v = 0, !.x = 0, !.y = c.grid.height]

\* The next position of "for y { for x { for variant" after (y, x, v).
NextCandidate(c, f) ==
    IF f.v + 1 < Len(ShapeVariants(c, f)) THEN [f EXCEPT !.at = "loop", !.v = f.v + 1]
    ELSE IF f.x + 1 < c.grid.width THEN [f EXCEPT !.at = "loop", !.v = 0, !.x = f.x + 1]
    ELSE [f EXCEPT !.at = "loop", !.v = 0, !.x = 0, !.y = f.y + 1]

EntryStepNoPrune(c) ==
    LET f == Top(c)
    IN  IF f.piece_idx >= Len(c.pieces_to_place) THEN Return(c, TRUE)
        ELSE SetTop(c, [f EXCEPT !.at = "loop"])

\* Lines 203-215: the base case, the early termination, the loops' start.
EntryStep(c) ==
    LET f == Top(c)
    IN  IF f.piece_idx >= Len(c.pieces_to_place) THEN Return(c, TRUE)
        ELSE IF c.grid.total_cells - c.grid.filled_cells < f.total_cells_needed
        THEN Return(c, FALSE)
        ELSE SetTop(c, [f EXCEPT !.at = "loop"])

TryStepKeepNeeded(c) ==
    LET f       == Top(c)
        variant == ShapeVariants(c, f)[f.v + 1]
        next_cells_needed == f.total_cells_needed
        placed  == place(c.grid, variant, f.x, f.y)
        callee  ==
            IF f.pieces_remaining = 1
            THEN Frame(f.piece_idx + 1,
                       IF f.piece_idx + 1 < Len(c.pieces_to_place)
                       THEN c.pieces_to_place[f.piece_idx + 2][2]
                       ELSE 0,
                       next_cells_needed, placed)
            ELSE Frame(f.piece_idx, f.pieces_remaining - 1, next_cells_needed, placed)
    IN  IF f.y >= c.grid.height THEN Return(c, FALSE)
        ELSE IF can_place(c.grid, variant, f.x, f.y)
        THEN [c EXCEPT !.grid   = placed,
                       !.places = @ + 1,
                       !.stack  = Append(SubSeq(c.stack, 1, Len(c.stack) - 1),
                                         [f EXCEPT !.at = "call"]) \o <<callee>>]
        ELSE SetTop(c, NextCandidate(c, f))

TryStepSamePiece(c) ==
    LET f       == Top(c)
        variant == ShapeVariants(c, f)[f.v + 1]
        cells_per_piece   == Len(ShapeVariants(c, f)[1])
        next_cells_needed == f.total_cells_needed - cells_per_piece
        placed  == place(c.grid, variant, f.x, f.y)
        callee  == Frame(f.piece_idx, f.pieces_remaining, next_cells_needed, placed)
    IN  IF f.y >= c.grid.height THEN Return(c, FALSE)
        ELSE IF can_place(c.grid, variant, f.x, f.y)
        THEN [c EXCEPT !.grid   = placed,
                       !.places = @ + 1,
                       !.stack  = Append(SubSeq(c.stack, 1, Len(c.stack) - 1),
                                         [f EXCEPT !.at = "call"]) \o <<callee>>]
        ELSE SetTop(c, NextCandidate(c, f))

TryStepAlwaysAdvance(c) ==
    LET f       == Top(c)
        variant == ShapeVariants(c, f)[f.v + 1]
        cells_per_piece   == Len(ShapeVariants(c, f)[1])
        next_cells_needed == f.total_cells_needed - cells_per_piece
        placed  == place(c.grid, variant, f.x, f.y)
        callee  == Frame(f.piece_idx + 1,
                         IF f.piece_idx + 1 < Len(c.pieces_to_place)
                         THEN c.pieces_to_place[f.piece_idx + 2][2]
                         ELSE 0,
                         next_cells_needed, placed)
    IN  IF f.y >= c.grid.height THEN Return(c, FALSE)
        ELSE IF can_place(c.grid, variant, f.x, f.y)
        THEN [c EXCEPT !.grid   = placed,
                       !.places = @ + 1,
                       !.stack  = Append(SubSeq(c.stack, 1, Len(c.stack) - 1),
                                         [f EXCEPT !.at = "call"]) \o <<callee>>]
        ELSE SetTop(c, NextCandidate(c, f))

\* Lines 218-249 and 261: one candidate of the loops, up to the recursive
\* call; or the end of the loops.
TryStep(c) ==
    LET f       == Top(c)
        variant == ShapeVariants(c, f)[f.v + 1]
        cells_per_piece   == Len(ShapeVariants(c, f)[1])
        next_cells_needed == f.total_cells_needed - cells_per_piece
        placed  == place(c.grid, variant, f.x, f.y)
        callee  ==
            IF f.pieces_remaining = 1
            THEN Frame(f.piece_idx + 1,
                       IF f.piece_idx + 1 < Len(c.pieces_to_place)
                       THEN c.pieces_to_place[f.piece_idx + 2][2]
                       ELSE 0,
                       next_cells_needed, placed)
            ELSE Frame(f.piece_idx, f.pieces_remaining - 1, next_cells_needed, placed)
    IN  IF f.y >= c.grid.height THEN Return(c, FALSE)
        ELSE IF can_place(c.grid, variant, f.x, f.y)
        THEN [c EXCEPT !.grid   = placed,
                       !.places = @ + 1,
                       !.stack  = Append(SubSeq(c.stack, 1, Len(c.stack) - 1),
                                         [f EXCEPT !.at = "call"]) \o <<callee>>]
        ELSE SetTop(c, NextCandidate(c, f))

AfterCallStepEarlyReturn(c) ==
    LET f       == Top(c)
        variant == ShapeVariants(c, f)[f.v + 1]
        removed == remove(c.grid, variant, f.x, f.y)
    IN  IF c.ret[1] THEN Return(c, TRUE)
        ELSE [SetTop(c, NextCandidate(c, f)) EXCEPT !.grid = removed, !.ret = <<>>]

AfterCallStepRemoveFirstVariant(c) ==
    LET f       == Top(c)
        variant == ShapeVariants(c, f)[1]
        removed == remove(c.grid, variant, f.x, f.y)
    IN  IF c.ret[1] THEN Return([c EXCEPT !.grid = removed], TRUE)
        ELSE [SetTop(c, NextCandidate(c, f)) EXCEPT !.grid = removed, !.ret = <<>>]

AfterCallStepIgnoreSuccess(c) ==
    LET f       == Top(c)
        variant == ShapeVariants(c, f)[f.v + 1]
        removed == remove(c.grid, variant, f.x, f.y)
    IN  [SetTop(c, NextCandidate(c, f)) EXCEPT !.grid = removed, !.ret = <<>>]

\* Lines 251-255: the recursive call has returned c.ret.
AfterCallStep(c) ==
    LET f       == Top(c)
        variant == ShapeVariants(c, f)[f.v + 1]
        removed == remove(c.grid, variant, f.x, f.y)
    IN  IF c.ret[1] THEN Return([c EXCEPT !.grid = removed], TRUE)
        ELSE [SetTop(c, NextCandidate(c, f)) EXCEPT !.grid = removed, !.ret = <<>>]

\* One step of the search, and the search run to the return of its
\* outermost call: SearchStep applied up to 2^n times.
SearchStep(c) ==
    IF c.stack = <<>> THEN c
    ELSE CASE Top(c).at = "entry" -> EntryStep(c)
           [] Top(c).at = "loop"  -> TryStep(c)
           [] Top(c).at = "call"  -> AfterCallStep(c)

RECURSIVE RunSteps(_, _)
RunSteps(c, n) ==
    IF c.stack = <<>> THEN c
    ELSE IF n = 0 THEN SearchStep(c)
    ELSE RunSteps(RunSteps(c, n - 1), n - 1)

(***************************************************************************)
(* part_one, one iteration of "for region in regions".                     *)
(***************************************************************************)
\* Lines 274-280: the entries with a positive count, in the order of the
\* shapes.
RECURSIVE BuildPiecesKeepZero(_, _)
BuildPiecesKeepZero(required, i) ==
    IF i > Len(required) THEN <<>>
    ELSE <<(<<i - 1, required[i]>>)>> \o BuildPiecesKeepZero(required, i + 1)

RECURSIVE BuildPieces(_, _)
BuildPieces(required, i) ==
    IF i > Len(required) THEN <<>>
    ELSE (IF required[i] > 0 THEN <<(<<i - 1, required[i]>>)>> ELSE <<>>)
         \o BuildPieces(required, i + 1)

\* Line 283: sort_unstable_by_key on Reverse(cnt) leaves the order of the
\* entries with equal counts open: every descending order is a result.
SortedOrders(pieces) ==
    LET n     == Len(pieces)
        perms == {p \in [1..n -> 1..n] : \A i, j \in 1..n : i # j => p[i] # p[j]}
    IN  {[i \in 1..n |-> pieces[p[i]]] : p \in
            {q \in perms : \A i \in 1..n - 1 : pieces[q[i]][2] >= pieces[q[i + 1]][2]}}

TotalPiecesOnly(vl, pieces) ==
    SumSeq([i \in DOMAIN pieces |-> pieces[i][2]])

TotalCellsOneEach(vl, pieces) ==
    SumSeq([i \in DOMAIN pieces |-> Len(vl[pieces[i][1] + 1][1])])

\* Lines 286-289.
TotalCellsNeeded(vl, pieces) ==
    SumSeq([i \in DOMAIN pieces |-> Len(vl[pieces[i][1] + 1][1]) * pieces[i][2]])

TooLargeFlipped(total_cells_needed, r) ==
    total_cells_needed < r.width * r.height

\* Line 292.
TooLarge(total_cells_needed, r) ==
    total_cells_needed > r.width * r.height

StartSearchLastCount(vl, pieces, r) ==
    LET g == GridNew(r.width, r.height)
        initial_count == IF pieces # <<>> THEN pieces[Len(pieces)][2] ELSE 0
    IN  [variants_list   |-> vl,
         pieces_to_place |-> pieces,
         grid   |-> g,
         stack  |-> <<Frame(0, initial_count, TotalCellsNeeded(vl, pieces), g)>>,
         ret    |-> <<>>,
         places |-> 0]

StartSearchOneCopy(vl, pieces, r) ==
    LET g == GridNew(r.width, r.height)
        initial_count == IF pieces # <<>> THEN 1 ELSE 0
    IN  [variants_list   |-> vl,
         pieces_to_place |-> pieces,
         grid   |-> g,
         stack  |-> <<Frame(0, initial_count, TotalCellsNeeded(vl, pieces), g)>>,
         ret    |-> <<>>,
         places |-> 0]

\* Lines 296-310: the fresh grid and the outermost call.
StartSearch(vl, pieces, r) ==
    LET g == GridNew(r.width, r.height)
        initial_count == IF pieces # <<>> THEN pieces[1][2] ELSE 0
    IN  [variants_list   |-> vl,
         pieces_to_place |-> pieces,
         grid   |-> g,
         stack  |-> <<Frame(0, initial_count, TotalCellsNeeded(vl, pieces), g)>>,
         ret    |-> <<>>,
         places |-> 0]

\* The verdict of one region under one order of its pieces, as the loop
\* body of part_one computes it: <<b>>, or <<>> while the search has not
\* returned within 2^LogSteps steps.
Verdict(vl, pieces, r) ==
    IF TooLarge(TotalCellsNeeded(vl, pieces), r) THEN <<FALSE>>
    ELSE LET c == RunSteps(StartSearch(vl, pieces, r), LogSteps)
         IN  IF c.stack = <<>> THEN c.ret ELSE <<>>

(***************************************************************************)
(* The inputs: pictures of pieces as parse_input hands them to from_lines. *)
(***************************************************************************)
PicSingle    == <<(<<"#">>)>>
PicDomino    == <<(<<"#", "#">>)>>
PicTromino   == << <<"#", "#">>, <<"#", ".">> >>
PicBar       == <<(<<"#", "#", "#">>)>>
PicSquare    == << <<"#", "#">>, <<"#", "#">> >>
PicTetromino == << <<"#", ".">>, <<"#", ".">>, <<"#", "#">> >>

Library == <<PicSingle, PicDomino, PicTromino, PicBar, PicSquare, PicTetromino>>

GridLibrary == <<PicDomino, PicTromino>>

\* Every picture of BoxH lines of BoxW characters with a '#' in it.
BoxPictures ==
    {p \in [1..BoxH -> [1..BoxW -> {"#", "."}]] :
        \E y \in 1..BoxH, x \in 1..BoxW : p[y][x] = "#"}

NoGrid == GridNew(0, 0)

NoRegion == [width |-> 0, height |-> 0, required |-> <<>>]

(***************************************************************************)
(* The state machine of part_one.                                          *)
(***************************************************************************)
Config ==
    [variants_list   |-> variants_list,
     pieces_to_place |-> pieces_to_place,
     grid |-> grid, stack |-> stack, ret |-> ret, places |-> places]

\* The search moves to configuration c.
Becomes(c) ==
    /\ grid' = c.grid
    /\ stack' = c.stack
    /\ ret' = c.ret
    /\ places' = c.places
    /\ UNCHANGED <<pc, shapes, variants_list, valid_regions, region,
                   pieces_to_place, last, ti, unique_variants, held>>

Init ==
    /\ pc = "start"
    /\ \E a \in DOMAIN Library, b \in DOMAIN Library :
          /\ a < b
          /\ shapes = <<FromLines(Library[a]), FromLines(Library[b])>>
    /\ variants_list = <<>>
    /\ valid_regions = 0
    /\ region = NoRegion
    /\ pieces_to_place = <<>>
    /\ grid = NoGrid
    /\ stack = <<>>
    /\ ret = <<>>
    /\ places = 0
    /\ last = NoLast
    /\ ti = 0
    /\ unique_variants = <<>>
    /\ held = <<>>

\* Lines 268-270.
Precompute ==
    /\ pc = "start"
    /\ variants_list' = [i \in DOMAIN shapes |-> rotations_and_flips(shapes[i])]
    /\ valid_regions' = 0
    /\ pc' = "regions"
    /\ UNCHANGED <<shapes, region, pieces_to_place, grid, stack, ret, places,
                   last, ti, unique_variants, held>>

\* Lines 272-310: the next region of the input, up to the outermost call of
\* can_fit_presents or to the "continue" of the quick check.  The region is
\* drawn when the loop reaches it; the counter valid_regions is capped at
\* MaxValid.
StartRegion ==
    /\ pc = "regions"
    /\ valid_regions < MaxValid
    /\ \E w \in 1..MaxW, h \in 1..MaxH, required \in [DOMAIN shapes -> 0..MaxCount] :
         \E pieces \in SortedOrders(BuildPieces(required, 1)) :
            LET r == [width |-> w, height |-> h, required |-> required]
                c == StartSearch(variants_list, pieces, r)
            IN  IF TooLarge(TotalCellsNeeded(variants_list, pieces), r)
                THEN /\ pc' = "continue"
                     /\ last' = [op |-> "region", region |-> r, pieces |-> pieces,
                                 searched |-> FALSE, verdict |-> FALSE, places |-> 0]
                     /\ UNCHANGED <<region, pieces_to_place, grid, stack, ret, places>>
                ELSE /\ pc' = "search"
                     /\ region' = r
                     /\ pieces_to_place' = pieces
                     /\ grid' = c.grid
                     /\ stack' = c.stack
                     /\ ret' = c.ret
                     /\ places' = c.places
                     /\ last' = NoLast
    /\ UNCHANGED <<shapes, variants_list, valid_regions, ti, unique_variants, held>>

CallEntry ==
    /\ pc = "search"
    /\ stack # <<>>
    /\ Top(Config).at = "entry"
    /\ Becomes(EntryStep(Config))

\* The search moves to configuration c and the history of placements not
\* yet removed becomes h.
BecomesWith(c, h) ==
    /\ grid' = c.grid
    /\ stack' = c.stack
    /\ ret' = c.ret
    /\ places' = c.places
    /\ held' = h
    /\ UNCHANGED <<pc, shapes, variants_list, valid_regions, region,
                   pieces_to_place, last, ti, unique_variants>>

\* The arguments (variant, x, y) of the call of grid.place in line 222 and
\* of the call of grid.remove in line 251, read from the loop variables of
\* the call on top when the call is made.
PlaceArgs(c) ==
    [shape |-> ShapeVariants(c, Top(c))[Top(c).v + 1], x |-> Top(c).x, y |-> Top(c).y]

RemoveArgs(c) ==
    [shape |-> ShapeVariants(c, Top(c))[Top(c).v + 1], x |-> Top(c).x, y |-> Top(c).y]

\* History: the placements held, less the latest one made with arguments a
\* (all of them kept when none was).
RECURSIVE Unhold(_, _)
Unhold(h, a) ==
    IF h = <<>> THEN <<>>
    ELSE IF h[Len(h)].args = a THEN SubSeq(h, 1, Len(h) - 1)
    ELSE Append(Unhold(SubSeq(h, 1, Len(h) - 1), a), h[Len(h)])

\* held records every call of place: its arguments and the depth of the
\* call of can_fit_presents that made it.
TryCandidate ==
    /\ pc = "search"
    /\ stack # <<>>
    /\ Top(Config).at = "loop"
    /\ LET c == TryStep(Config)
       IN  BecomesWith(c, IF c.places > places
                          THEN Append(held, [args  |-> PlaceArgs(Config),
                                             depth |-> Len(stack)])
                          ELSE held)

AfterCall ==
    /\ pc = "search"
    /\ stack # <<>>
    /\ Top(Config).at = "call"
    /\ BecomesWith(AfterCallStep(Config), Unhold(held, RemoveArgs(Config)))

FinishRegionCountAll ==
    /\ pc = "search"
    /\ stack = <<>>
    /\ valid_regions' = valid_regions + 1
    /\ last' = [op |-> "region", region |-> region, pieces |-> pieces_to_place, searched |-> TRUE,
                verdict |-> ret[1], places |-> places]
    /\ pc' = "continue"
    /\ region' = NoRegion
    /\ pieces_to_place' = <<>>
    /\ grid' = NoGrid
    /\ ret' = <<>>
    /\ places' = 0
    /\ UNCHANGED <<shapes, variants_list, stack, ti, unique_variants, held>>

\* Lines 303-312: the outermost call has returned; the grid is dropped.
FinishRegion ==
    /\ pc = "search"
    /\ stack = <<>>
    /\ valid_regions' = IF ret[1] THEN valid_regions + 1 ELSE valid_regions
    /\ last' = [op |-> "region", region |-> region, pieces |-> pieces_to_place, searched |-> TRUE,
                verdict |-> ret[1], places |-> places]
    /\ pc' = "continue"
    /\ region' = NoRegion
    /\ pieces_to_place' = <<>>
    /\ grid' = NoGrid
    /\ ret' = <<>>
    /\ places' = 0
    /\ UNCHANGED <<shapes, variants_list, stack, ti, unique_variants, held>>

\* Lines 272 and 313: the iteration is over and the loop turns to its head;
\* what the history kept of the iteration is dropped.
LoopBack ==
    /\ pc = "continue"
    /\ pc' = "regions"
    /\ last' = NoLast
    /\ UNCHANGED <<shapes, variants_list, valid_regions, region, pieces_to_place,
                   grid, stack, ret, places, ti, unique_variants, held>>

\* Line 315: the input has no further region.
Finish ==
    /\ pc = "regions"
    /\ pc' = "done"
    /\ UNCHANGED <<shapes, variants_list, valid_regions, region, pieces_to_place,
                   grid, stack, ret, places, last, ti, unique_variants, held>>

Next ==
    \/ Precompute
    \/ StartRegion
    \/ CallEntry
    \/ TryCandidate
    \/ AfterCall
    \/ FinishRegion
    \/ LoopBack
    \/ Finish

Spec == Init /\ [][Next]_vars

(***************************************************************************)
(* rotations_and_flips on its own: the base shape is drawn from the        *)
(* pictures of a box and the loop over the table runs one transformation   *)
(* at a time.                                                              *)
(***************************************************************************)
InitShapes ==
    /\ pc = "rot"
    /\ \E p \in BoxPictures : shapes = <<FromLines(p)>>
    /\ ti = 1
    /\ unique_variants = <<>>
    /\ variants_list = <<>>
    /\ valid_regions = 0
    /\ region = NoRegion
    /\ pieces_to_place = <<>>
    /\ grid = NoGrid
    /\ stack = <<>>
    /\ ret = <<>>
    /\ places = 0
    /\ last = NoLast
    /\ held = <<>>

\* Lines 39-46: the loop body for transformation ti.
RotIterate ==
    /\ pc = "rot"
    /\ ti <= NumTransforms
    /\ unique_variants' = RotStep(unique_variants, shapes[1], ti)
    /\ ti' = ti + 1
    /\ UNCHANGED <<pc, shapes, variants_list, valid_regions, region,
                   pieces_to_place, grid, stack, ret, places, last, held>>

\* Line 48: the function returns unique_variants.
RotReturn ==
    /\ pc = "rot"
    /\ ti > NumTransforms
    /\ variants_list' = <<unique_variants>>
    /\ pc' = "rot_done"
    /\ UNCHANGED <<shapes, valid_regions, region, pieces_to_place, grid, stack,
                   ret, places, last, ti, unique_variants, held>>

NextShapes == RotIterate \/ RotReturn

SpecShapes == InitShapes /\ [][NextShapes]_vars

(***************************************************************************)
(* The dihedral group of the square, stated apart from the table: k        *)
(* quarter turns (x, y) -> (-y, x), after a mirror (x, y) -> (-x, y) when  *)
(* mirror is set.                                                          *)
(***************************************************************************)
RECURSIVE Turn(_, _)
Turn(k, c) == IF k = 0 THEN c ELSE Turn(k - 1, <<-c[2], c[1]>>)

Dihedral(k, mirror, c) == Turn(k, IF mirror THEN <<-c[1], c[2]>> ELSE c)

DihedralImages(cells) ==
    {[i \in DOMAIN cells |-> Dihedral(k, m, cells[i])] : k \in 0..3, m \in BOOLEAN}

\* The index in the table of the first transformation whose normalized
\* image of cells is the shape s.
FirstSeen(cells, s) ==
    Min({t \in 1..NumTransforms :
            normalize([i \in DOMAIN cells |-> Transform(t, cells[i])]) = s})

\* C10: for every non-empty base shape rotations_and_flips returns at most 8
\* shapes; the normalized image of the base shape under each of the 8
\* dihedral transforms is among them and every one of them is such an image;
\* no two entries are equal; the entries stand in the order in which the
\* table first produces them, the first being the normalized base shape.
C10_RotationsAndFlips ==
    (pc = "rot_done" /\ shapes[1] # <<>>) =>
        LET cells == shapes[1]
            vs    == variants_list[1]
        IN  /\ cells # <<>>
            /\ vs = rotations_and_flips(cells)
            /\ Len(vs) <= 8
            /\ \A img \in DihedralImages(cells) : Contains(vs, normalize(img))
            /\ \A i \in DOMAIN vs : \E img \in DihedralImages(cells) : vs[i] = normalize(img)
            /\ \A i, j \in DOMAIN vs : i # j => vs[i] # vs[j]
            /\ \A i, j \in DOMAIN vs : i < j => FirstSeen(cells, vs[i]) < FirstSeen(cells, vs[j])
            /\ vs[1] = normalize(cells)

\* A shape with a symmetry: the loop has met an image it already held.
C10_Witness ==
    /\ pc = "rot_done"
    /\ Len(variants_list[1]) > 1
    /\ Len(variants_list[1]) < NumTransforms

(***************************************************************************)
(* Grid on its own: a caller that keeps the contract of place and remove   *)
(* (place only where can_place holds, remove only the latest placement not *)
(* yet removed) on a grid of any size, with offsets on and beyond every    *)
(* edge.  held keeps, for each placement made, the grid before it; last    *)
(* names the operation done last.                                          *)
(***************************************************************************)
Offsets(n) == (0 - Margin)..(n - 1 + Margin)

AllVariants(vl) == UNION {Range(vl[i]) : i \in DOMAIN vl}

InitGrid ==
    /\ pc = "grid"
    /\ shapes = [i \in DOMAIN GridLibrary |-> FromLines(GridLibrary[i])]
    /\ variants_list = [i \in DOMAIN GridLibrary |->
                           rotations_and_flips(FromLines(GridLibrary[i]))]
    /\ \E w \in 1..MaxW, h \in 1..MaxH : grid = GridNew(w, h)
    /\ held = <<>>
    /\ last = NoLast
    /\ valid_regions = 0
    /\ region = NoRegion
    /\ pieces_to_place = <<>>
    /\ stack = <<>>
    /\ ret = <<>>
    /\ places = 0
    /\ ti = 0
    /\ unique_variants = <<>>

GridPlace ==
    /\ pc = "grid"
    /\ Len(held) < MaxHeld
    /\ \E shape \in AllVariants(variants_list),
          x \in Offsets(grid.width), y \in Offsets(grid.height) :
         /\ can_place(grid, shape, x, y)
         /\ grid' = place(grid, shape, x, y)
         /\ held' = Append(held, [shape |-> shape, x |-> x, y |-> y, before |-> grid])
         /\ last' = [op |-> "place", shape |-> shape, x |-> x, y |-> y, before |-> grid]
    /\ UNCHANGED <<pc, shapes, variants_list, valid_regions, region,
                   pieces_to_place, stack, ret, places, ti, unique_variants>>

GridRemove ==
    /\ pc = "grid"
    /\ held # <<>>
    /\ LET h == held[Len(held)]
       IN  /\ grid' = remove(grid, h.shape, h.x, h.y)
           /\ held' = SubSeq(held, 1, Len(held) - 1)
           /\ last' = [op |-> "remove", shape |-> h.shape, x |-> h.x, y |-> h.y,
                       before |-> h.before]
    /\ UNCHANGED <<pc, shapes, variants_list, valid_regions, region,
                   pieces_to_place, stack, ret, places, ti, unique_variants>>

NextGrid == GridPlace \/ GridRemove

SpecGrid == InitGrid /\ [][NextGrid]_vars

(***************************************************************************)
(* What the claims speak of, stated apart from the code.                   *)
(***************************************************************************)
RegionCells(w, h) == (0..w - 1) \X (0..h - 1)

\* The cells a shape covers when it is moved by (x, y).
Covered(shape, x, y) == {<<x + shape[i][1], y + shape[i][2]>> : i \in DOMAIN shape}

\* The cells whose bit is set, read bit by bit; and whether occupied holds
\* no bit but those of cells of the grid.
SetBits(g) == {c \in RegionCells(g.width, g.height) : is_occupied(g, c[1], c[2])}

NoStrayBits(g) ==
    /\ Len(g.occupied) = DivCeil(g.width * g.height, WordBits)
    /\ \A w \in DOMAIN g.occupied :
          g.occupied[w] >= 0 /\ g.occupied[w] < Pow2(g.width * g.height)

\* The cells covered by the placements the caller holds.
HeldCells == UNION {Covered(held[i].shape, held[i].x, held[i].y) : i \in DOMAIN held}

\* C2: undo correctness.  After remove(shape, x, y) has undone a
\* place(shape, x, y) that was made where can_place held, every occupancy
\* bit and filled_cells are as they were before that place.
C2_UndoRestores ==
    (/\ pc = "grid"
     /\ last.op = "remove"
     /\ can_place(last.before, last.shape, last.x, last.y)) =>
        /\ grid.occupied = last.before.occupied
        /\ grid.filled_cells = last.before.filled_cells
        /\ SetBits(grid) = SetBits(last.before)

\* A placement on a grid that already held a piece has been undone.
C2_Witness ==
    /\ pc = "grid"
    /\ last.op = "remove"
    /\ last.before.filled_cells > 0

\* C6: can_place(shape, x, y) is true exactly when every cell of the moved
\* shape lies in [0, width) x [0, height) and is covered by no placement
\* held, for every x and y, those below zero and beyond the edges included.
C6_CanPlaceExact ==
    pc = "grid" =>
        LET taken == HeldCells
        IN  \A shape \in AllVariants(variants_list),
               x \in Offsets(grid.width), y \in Offsets(grid.height) :
                can_place(grid, shape, x, y) <=>
                    \A c \in Covered(shape, x, y) :
                        /\ 0 <= c[1] /\ c[1] < grid.width
                        /\ 0 <= c[2] /\ c[2] < grid.height
                        /\ c \notin taken

\* A grid with a piece on it where can_place accepts one candidate, refuses
\* one only for a cell left of the grid, one only for a cell beyond its
\* right edge whose index y*width+x is a free bit of the next row, and one
\* only because a cell is occupied.
C6_Witness ==
    /\ pc = "grid"
    /\ held # <<>>
    /\ \E shape \in AllVariants(variants_list),
          x \in Offsets(grid.width), y \in Offsets(grid.height) :
          can_place(grid, shape, x, y)
    /\ \E shape \in AllVariants(variants_list), y \in 0..grid.height - 1 :
          /\ ~can_place(grid, shape, 0 - 1, y)
          /\ Covered(shape, 0 - 1, y) \cap HeldCells = {}
    /\ \E shape \in AllVariants(variants_list), y \in 0..grid.height - 2 :
          /\ ~can_place(grid, shape, grid.width, y)
          /\ \A c \in Covered(shape, grid.width, y) :
                c[2] < grid.height - 1 /\ <<c[1] - grid.width, c[2] + 1>> \notin HeldCells
    /\ \E shape \in AllVariants(variants_list),
          x \in 0..grid.width - 1, y \in 0..grid.height - 1 :
          /\ ~can_place(grid, shape, x, y)
          /\ Covered(shape, x, y) \subseteq RegionCells(grid.width, grid.height)

\* C7: after place(shape, x, y) made where can_place held, the bit of every
\* covered cell is set, filled_cells has grown by the number of cells of the
\* shape, and every other cell (and the grid's dimensions) is as before.
C7_PlaceEffect ==
    (/\ pc = "grid"
     /\ last.op = "place"
     /\ can_place(last.before, last.shape, last.x, last.y)) =>
        LET cov == Covered(last.shape, last.x, last.y)
        IN  /\ \A c \in cov : is_occupied(grid, c[1], c[2])
            /\ grid.filled_cells = last.before.filled_cells + Cardinality(cov)
            /\ \A c \in RegionCells(grid.width, grid.height) \ cov :
                  is_occupied(grid, c[1], c[2]) <=> is_occupied(last.before, c[1], c[2])
            /\ NoStrayBits(grid)
            /\ grid.width = last.before.width
            /\ grid.height = last.before.height
            /\ grid.total_cells = last.before.total_cells

\* A shape of several cells has been placed beside a piece already there.
C7_Witness ==
    /\ pc = "grid"
    /\ last.op = "place"
    /\ Len(last.shape) > 1
    /\ last.before.filled_cells > 0

(***************************************************************************)
(* The search of part_one, seen from outside.                              *)
(***************************************************************************)
\* The placements in force: a frame waiting in "call" has placed its
\* candidate and not yet removed it.
PlacedFrames == {i \in DOMAIN stack : stack[i].at = "call"}

PlacedCells(i) ==
    Covered(ShapeVariants(Config, stack[i])[stack[i].v + 1], stack[i].x, stack[i].y)

RECURSIVE PopCount(_)
PopCount(word) == IF word = 0 THEN 0 ELSE (word % 2) + PopCount(word \div 2)

\* C3: in every state of a search filled_cells is the number of set bits of
\* the occupancy bitset and total_cells is width*height.
C3_FilledIsPopCount ==
    pc = "search" =>
        /\ grid.filled_cells = SumSeq([w \in DOMAIN grid.occupied |-> PopCount(grid.occupied[w])])
        /\ grid.total_cells = grid.width * grid.height
        /\ grid.width = region.width
        /\ grid.height = region.height

\* Between a remove and the next place, below another placement still in
\* force.
C3_Witness ==
    /\ pc = "search"
    /\ Len(stack) >= 2
    /\ stack[Len(stack)].at = "loop"
    /\ stack[Len(stack)].x + stack[Len(stack)].y > 0
    /\ grid.filled_cells > 0

\* C4: in every state of a search the bit of a cell is set exactly when one
\* placement in force covers the cell, and no cell, inside the region or
\* outside it, is covered by two placements or by one that leaves the region.
C4_BitsArePlacements ==
    pc = "search" =>
        LET cells == [i \in PlacedFrames |-> PlacedCells(i)]
        IN  /\ \A c \in RegionCells(grid.width, grid.height) :
                  is_occupied(grid, c[1], c[2]) <=>
                      Cardinality({i \in PlacedFrames : c \in cells[i]}) = 1
            /\ \A i, j \in PlacedFrames : i # j => cells[i] \cap cells[j] = {}
            /\ \A i \in PlacedFrames : cells[i] \subseteq RegionCells(grid.width, grid.height)
            /\ NoStrayBits(grid)

\* Three placements in force at once.
C4_Witness ==
    /\ pc = "search"
    /\ Cardinality(PlacedFrames) >= 3

\* C5: when a call of can_fit_presents returns, with true or with false and
\* at any depth, the occupancy bits and filled_cells are those the call was
\* entered with; when the outermost call has returned the grid is empty.
C5_ReturnRestoresGrid ==
    [][(pc = "search" /\ Len(stack') < Len(stack)) =>
          /\ grid'.occupied = stack[Len(stack)].entry.occupied
          /\ grid'.filled_cells = stack[Len(stack)].entry.filled_cells
          /\ (stack' = <<>> => grid' = GridNew(region.width, region.height))]_vars

\* The outermost call has returned true after at least two placements.
C5_Witness ==
    /\ pc = "search"
    /\ stack = <<>>
    /\ ret = <<TRUE>>
    /\ places >= 2

\* The cells a region asks for: for each piece the cells of its picture,
\* times the copies required.
Demand(r) ==
    SumSeq([i \in DOMAIN r.required |-> Cardinality(Range(shapes[i])) * r.required[i]])

\* C8: a region whose pieces ask for more than width*height cells is found
\* infeasible without a search: no search is ever under way for such a
\* region, and no place was called for it.
C8_AreaPreCheck ==
    /\ (pc = "search" => Demand(region) <= region.width * region.height)
    /\ (pc = "continue"
          /\ Demand(last.region) > last.region.width * last.region.height) =>
            /\ ~last.verdict
            /\ ~last.searched
            /\ last.places = 0

\* A region asking for more cells than it has was handled.
C8_Witness ==
    /\ pc = "continue"
    /\ Demand(last.region) > last.region.width * last.region.height

(***************************************************************************)
(* Feasibility, stated apart from the search: the required instances can   *)
(* be laid into the region, each as a dihedral image of its picture moved  *)
(* anywhere, inside the region and on cells no other instance covers.      *)
(***************************************************************************)
Abs(n) == IF n < 0 THEN 0 - n ELSE n

Max(S) == CHOOSE m \in S : \A n \in S : m >= n

Reach(cells) == Max({0} \cup {Abs(cells[i][1]) : i \in DOMAIN cells}
                        \cup {Abs(cells[i][2]) : i \in DOMAIN cells})

\* Every set of cells of the w x h region that is a moved dihedral image
\* of cells.
Layings(cells, w, h) ==
    LET k == Reach(cells)
    IN  {P \in {Covered(img, dx, dy) : img \in DihedralImages(cells),
                                       dx \in (0 - k)..(w - 1 + k),
                                       dy \in (0 - k)..(h - 1 + k)} :
            P \subseteq RegionCells(w, h)}

\* The instances a region requires: its shape indices, each as often as
\* required.
RECURSIVE Copies(_, _)
Copies(i, n) == IF n = 0 THEN <<>> ELSE <<i>> \o Copies(i, n - 1)

Instances(r) == Flatten([i \in DOMAIN r.required |-> Copies(i, r.required[i])])

\* lay[i] holds the layings of shape i; free, the cells still uncovered.
RECURSIVE CanLay(_, _, _)
CanLay(free, insts, lay) ==
    IF insts = <<>> THEN TRUE
    ELSE \E P \in lay[Head(insts)] :
            P \subseteq free /\ CanLay(free \ P, Tail(insts), lay)

\* Instances laid without overlap cover as many cells as they have
\* together, so the first conjunct follows from the second; it spares the
\* enumeration where it cannot succeed.
Packable(r) ==
    LET lay   == [i \in DOMAIN shapes |-> Layings(shapes[i], r.width, r.height)]
        insts == Instances(r)
        cells == SumSeq([k \in DOMAIN insts |-> Cardinality(Range(shapes[insts[k]]))])
    IN  /\ cells <= Cardinality(RegionCells(r.width, r.height))
        /\ CanLay(RegionCells(r.width, r.height),
                  [k \in DOMAIN insts |-> insts[Len(insts) + 1 - k]], lay)

\* C1: the verdict part_one reaches for a region (the quick check, then
\* can_fit_presents on a fresh grid) is true exactly when the required
\* instances can all be laid into the region, each in some rotation or
\* reflection, inside the region and without overlap.
C1_VerdictIsPackable ==
    (pc = "continue") => (last.verdict <=> Packable(last.region))

\* A search that found a packing only after taking a placement back, and
\* so made more placements than there are instances.
C1_Witness ==
    /\ pc = "continue"
    /\ last.verdict
    /\ last.places > Len(Instances(last.region))

\* A search that failed after placing two instances at once although the
\* region has cells enough.
C1_WitnessInfeasible ==
    /\ pc = "continue"
    /\ last.searched
    /\ ~last.verdict
    /\ last.places > 2

\* The required-count vectors that are at most r.required in every entry.
Below(r) ==
    {q \in [DOMAIN r.required -> 0..MaxCount] : \A i \in DOMAIN q : q[i] <= r.required[i]}

\* C9: when the verdict for the required counts R is feasible, the verdict
\* part_one computes for the same region size and shapes is feasible for
\* every R' with R'[i] <= R[i] for all i, under every order the sort may
\* leave its pieces in.
C9_Monotone ==
    (pc = "continue" /\ last.verdict) =>
        \A q \in Below(last.region) :
            \A pieces \in SortedOrders(BuildPieces(q, 1)) :
                Verdict(variants_list, pieces, [last.region EXCEPT !.required = q])
                    = <<TRUE>>

\* A feasible region with three instances or more of two shapes.
C9_Witness ==
    /\ pc = "continue"
    /\ last.verdict
    /\ \A i \in DOMAIN last.region.required : last.region.required[i] > 0
    /\ Len(Instances(last.region)) >= 3

\* The search run as one function agrees with the search run step by step.
RunAgrees ==
    (pc = "continue") =>
        Verdict(variants_list, last.pieces, last.region) = <<last.verdict>>

(***************************************************************************)
(* Shapes as sets of cells, apart from any order of listing: a set of      *)
(* cells moved so that its least x and its least y are 0, and the sets the *)
(* eight dihedral images of a shape make.                                  *)
(***************************************************************************)
Anchored(S) ==
    LET mx == Min({c[1] : c \in S})
        my == Min({c[2] : c \in S})
    IN  {<<c[1] - mx, c[2] - my>> : c \in S}

ImageSets(cells) == {Anchored(Range(img)) : img \in DihedralImages(cells)}

\* C11: rotations_and_flips gives exactly 1 variant for a single cell and
\* for the 2x2 square, and 8 variants, no two of them the same shape, for
\* the L-shaped piece of 4 cells; for every shape it gives as many variants
\* as the shape has different dihedral images, 8 for a shape without any
\* symmetry and fewer for a shape with one.
C11_VariantCounts ==
    pc = "rot_done" =>
        LET cells == shapes[1]
            vs    == variants_list[1]
            set   == Anchored(Range(cells))
        IN  /\ Cardinality(set) = 1 => Len(vs) = 1
            /\ set = Range(FromLines(PicSquare)) => Len(vs) = 1
            /\ set \in ImageSets(FromLines(PicTetromino)) =>
                  /\ Len(vs) = 8
                  /\ \A i, j \in DOMAIN vs : i # j =>
                        /\ vs[i] # vs[j]
                        /\ Anchored(Range(vs[i])) # Anchored(Range(vs[j]))
            /\ Len(vs) = Cardinality(ImageSets(cells))
            /\ Len(vs) < 8 <=>
                  \E k \in 0..3, m \in BOOLEAN :
                      /\ <<k, m>> # <<0, FALSE>>
                      /\ Anchored({Dihedral(k, m, c) : c \in Range(cells)}) = set

\* The L-shaped piece has run through the table and come out with 8
\* variants.
C11_Witness ==
    /\ pc = "rot_done"
    /\ Anchored(Range(shapes[1])) \in ImageSets(FromLines(PicTetromino))
    /\ Len(variants_list[1]) = 8

\* The 2x2 square, and a single cell, have run through the table.
C11_WitnessSquare ==
    /\ pc = "rot_done"
    /\ Anchored(Range(shapes[1])) = Range(FromLines(PicSquare))

C11_WitnessSingle ==
    /\ pc = "rot_done"
    /\ Len(shapes[1]) = 1

(***************************************************************************)
(* normalize on its own: two coordinate lists of up to MaxLen entries,     *)
(* with coordinates below zero and with repeated cells among them, are     *)
(* handed to normalize.  Under this specification shapes holds the two     *)
(* lists and unique_variants what normalize returned for them.             *)
(***************************************************************************)
NormCoords == ((0 - 1)..(MaxLen - 2)) \X ((0 - 1)..0)

RECURSIVE ListsUpTo(_)
ListsUpTo(n) ==
    IF n = 0 THEN {<<>>}
    ELSE LET shorter == ListsUpTo(n - 1)
         IN  shorter \cup {Append(l, c) : l \in {k \in shorter : Len(k) = n - 1},
                                          c \in NormCoords}

InitNormalize ==
    /\ pc = "norm"
    /\ \E a \in ListsUpTo(MaxLen) : shapes = <<a>>
    /\ unique_variants = <<>>
    /\ variants_list = <<>>
    /\ valid_regions = 0
    /\ region = NoRegion
    /\ pieces_to_place = <<>>
    /\ grid = NoGrid
    /\ stack = <<>>
    /\ ret = <<>>
    /\ places = 0
    /\ last = NoLast
    /\ ti = 0
    /\ held = <<>>

\* Lines 53-67, for the list given and for a second list.
NormalizeCall ==
    /\ pc = "norm"
    /\ \E b \in ListsUpTo(MaxLen) :
          /\ shapes' = <<shapes[1], b>>
          /\ unique_variants' = <<normalize(shapes[1]), normalize(b)>>
    /\ pc' = "norm_done"
    /\ UNCHANGED <<variants_list, valid_regions, region, pieces_to_place, grid,
                   stack, ret, places, last, ti, held>>

NextNormalize == NormalizeCall

SpecNormalize == InitNormalize /\ [][NextNormalize]_vars

\* The order of cells by x, then by y; and whether list s is list l with
\* every cell moved by (dx, dy), its entries taken in some order.
LexLeq(a, b) == a[1] < b[1] \/ (a[1] = b[1] /\ a[2] <= b[2])

MovedAndReordered(l, s, dx, dy) ==
    /\ Len(s) = Len(l)
    /\ \E p \in [DOMAIN l -> DOMAIN l] :
          /\ \A i, j \in DOMAIN l : i # j => p[i] # p[j]
          /\ \A i \in DOMAIN l : s[i] = <<l[p[i]][1] + dx, l[p[i]][2] + dy>>

NoRepeat(l) == \A i, j \in DOMAIN l : i # j => l[i] # l[j]

SameUpToTranslation(A, B) ==
    \E dx, dy \in (0 - MaxLen)..MaxLen : B = {<<c[1] + dx, c[2] + dy>> : c \in A}

\* C12: for a non-empty list normalize returns the same cells, each moved
\* by one and the same translation, so that the least x and the least y
\* are 0, listed in increasing order of (x, y); and two lists without
\* repeated cells have equal results exactly when their sets of cells are
\* translations of one another, in whatever order the cells are listed.
C12_NormalizeCanonical ==
    pc = "norm_done" =>
        LET a  == shapes[1]
            b  == shapes[2]
            na == unique_variants[1]
            nb == unique_variants[2]
        IN  /\ a # <<>> =>
                  /\ \E dx, dy \in (0 - MaxLen)..MaxLen : MovedAndReordered(a, na, dx, dy)
                  /\ \E i \in DOMAIN na : na[i][1] = 0
                  /\ \E i \in DOMAIN na : na[i][2] = 0
                  /\ \A i \in DOMAIN na : na[i][1] >= 0 /\ na[i][2] >= 0
                  /\ \A i, j \in DOMAIN na : i < j => LexLeq(na[i], na[j])
            /\ (NoRepeat(a) /\ NoRepeat(b)) =>
                  (na = nb <=> SameUpToTranslation(Range(a), Range(b)))

\* Two lists of different cells, listed in different orders, that are
\* translations of one another.
C12_Witness ==
    /\ pc = "norm_done"
    /\ Len(shapes[1]) >= 2
    /\ NoRepeat(shapes[1])
    /\ NoRepeat(shapes[2])
    /\ Range(shapes[1]) # Range(shapes[2])
    /\ \A dx, dy \in (0 - MaxLen)..MaxLen :
          shapes[2] # [i \in DOMAIN shapes[1] |->
                         <<shapes[1][i][1] + dx, shapes[1][i][2] + dy>>]
    /\ unique_variants[1] = unique_variants[2]

(***************************************************************************)
(* Scenario C: the pieces are a single cell and a domino, the region is 2  *)
(* wide and 1 high and requires no single cell and one domino.             *)
(***************************************************************************)
ScenarioCShapes == <<FromLines(PicSingle), FromLines(PicDomino)>>

ScenarioCRegion == [width |-> 2, height |-> 1, required |-> <<0, 1>>]

DominoHorizontal == <<(<<0, 0>>), (<<1, 0>>)>>

\* C13: in scenario C the entry with count zero is not among the pieces
\* searched, the only placement ever made is the domino lying flat at
\* (0, 0), that placement is in force when the search reaches its base
\* case, and the verdict is feasible.
C13_ScenarioC ==
    shapes = ScenarioCShapes =>
        /\ (pc = "search" /\ region = ScenarioCRegion) =>
              /\ pieces_to_place = <<(<<1, 1>>)>>
              /\ \A i \in DOMAIN stack :
                    stack[i].piece_idx < Len(pieces_to_place) =>
                        pieces_to_place[stack[i].piece_idx + 1][1] = 1
              /\ \A i \in PlacedFrames :
                    /\ ShapeVariants(Config, stack[i])[stack[i].v + 1] = DominoHorizontal
                    /\ stack[i].x = 0
                    /\ stack[i].y = 0
                    /\ PlacedCells(i) = {<<0, 0>>, <<1, 0>>}
              /\ places <= 1
              /\ (stack # <<>> /\ Top(Config).piece_idx >= Len(pieces_to_place)) =>
                    PlacedFrames = {1}
              /\ (stack = <<>>) => ret = <<TRUE>>
        /\ (pc = "continue" /\ last.region = ScenarioCRegion) =>
              /\ last.searched
              /\ last.verdict
              /\ last.places = 1
              /\ last.pieces = <<(<<1, 1>>)>>

\* Scenario C has been run to its verdict.
C13_Witness ==
    /\ pc = "continue"
    /\ shapes = ScenarioCShapes
    /\ last.region = ScenarioCRegion
    /\ last.searched

(***************************************************************************)
(* The value part_one returns: Some(valid_regions) once the loop over the  *)
(* regions has ended.  An Option is the empty or the one-element sequence. *)
(***************************************************************************)
part_one_result == IF pc = "done" THEN <<valid_regions>> ELSE <<>>

\* C14: the counter starts at 0; every region handled adds 1 to it when its
\* verdict is true and nothing otherwise, a region rejected by the area
\* pre-check adding nothing; no other step changes it; and the value
\* returned at the end is Some(counter).  So part_one returns Some(n) with
\* n the number of regions of the input whose verdict is true.
C14_CountsFeasibleRegions ==
    [][/\ (pc = "start") => valid_regions' = 0
       /\ (pc # "start" /\ pc' = "continue") =>
             /\ valid_regions' = valid_regions + (IF last'.verdict THEN 1 ELSE 0)
             /\ (~last'.searched) => (~last'.verdict /\ valid_regions' = valid_regions)
             /\ last'.verdict <=> Packable(last'.region)
       /\ (pc # "start" /\ pc' # "continue") => valid_regions' = valid_regions
       /\ (pc' = "done") => part_one_result' = <<valid_regions>>]_vars

\* part_one has returned a counter that a feasible region has raised.
C14_Witness ==
    /\ pc = "done"
    /\ part_one_result = <<MaxValid - 1>>

(***************************************************************************)
(* part_one as a running program: can_fit_presents is sequential code on   *)
(* one thread with nothing to wait for, so a call that can take its next   *)
(* step takes it.  The input holds the L-tromino, the bar of 3 and one     *)
(* region, which part_one handles to the end of its iteration.             *)
(***************************************************************************)
LiveLibrary == <<PicTromino, PicBar>>

InitLive ==
    /\ pc = "start"
    /\ shapes = [i \in DOMAIN LiveLibrary |-> FromLines(LiveLibrary[i])]
    /\ variants_list = <<>>
    /\ valid_regions = 0
    /\ region = NoRegion
    /\ pieces_to_place = <<>>
    /\ grid = NoGrid
    /\ stack = <<>>
    /\ ret = <<>>
    /\ places = 0
    /\ last = NoLast
    /\ ti = 0
    /\ unique_variants = <<>>
    /\ held = <<>>

SearchRuns == CallEntry \/ TryCandidate \/ AfterCall

NextLive ==
    \/ Precompute
    \/ StartRegion
    \/ CallEntry
    \/ TryCandidate
    \/ AfterCall
    \/ FinishRegion

SpecLive == InitLive /\ [][NextLive]_vars /\ WF_vars(SearchRuns)

\* C15: every search terminates.  Whenever can_fit_presents has been called
\* for a region its outermost call eventually returns; the search is left
\* only by that return; and the outermost call returns true from the base
\* case or after a recursive call that returned true, and false only when
\* its loops have run past the last candidate.
C15_SearchTerminates ==
    /\ [](pc = "search" => <>(pc = "search" /\ stack = <<>> /\ Len(ret) = 1))
    /\ [][(pc = "search" /\ pc' # "search") => (stack = <<>> /\ Len(ret) = 1)]_vars
    /\ [][(pc = "search" /\ stack # <<>> /\ stack' = <<>>) =>
             \/ /\ ret' = <<TRUE>>
                /\ \/ /\ stack[1].at = "entry"
                      /\ stack[1].piece_idx >= Len(pieces_to_place)
                   \/ stack[1].at = "call" /\ ret = <<TRUE>>
             \/ /\ ret' = <<FALSE>>
                /\ stack[1].at = "loop"
                /\ stack[1].y >= grid.height]_vars

\* The outermost call has returned false after several placements were
\* made and taken back.
C15_Witness ==
    /\ pc = "search"
    /\ stack = <<>>
    /\ ret = <<FALSE>>
    /\ places >= 3

\* C16: the search of every region starts on a grid of the region's size
\* with every bit clear and filled_cells = 0; the variant lists are those
\* computed from the shapes before the first region and no step changes
\* them; what the search starts from is given by the region alone; and the
\* verdict of a region is true exactly when that region can be packed,
\* whatever regions were handled before it.
C16_FreshGridPerRegion ==
    [][/\ (pc = "regions" /\ pc' = "search") =>
             /\ grid'.width = region'.width
             /\ grid'.height = region'.height
             /\ grid'.total_cells = region'.width * region'.height
             /\ grid'.filled_cells = 0
             /\ \A w \in DOMAIN grid'.occupied : grid'.occupied[w] = 0
             /\ SetBits(grid') = {}
             /\ NoStrayBits(grid')
       /\ (pc = "start") =>
             variants_list' = [i \in DOMAIN shapes |-> rotations_and_flips(shapes[i])]
       /\ (pc # "start") => variants_list' = variants_list
       /\ shapes' = shapes
       /\ (pc = "regions" /\ pc' = "search") =>
             /\ pieces_to_place' \in SortedOrders(BuildPieces(region'.required, 1))
             /\ Len(stack') = 1
             /\ stack'[1].piece_idx = 0
             /\ stack'[1].at = "entry"
             /\ stack'[1].total_cells_needed = Demand(region')
             /\ ret' = <<>>
       /\ (pc' = "continue") => (last'.verdict <=> Packable(last'.region))]_vars

\* A search has started after an earlier region was found feasible.
C16_Witness ==
    /\ pc = "search"
    /\ valid_regions > 0
    /\ stack # <<>>
    /\ grid.filled_cells > 0

\* The search stands at its base case: the call on top was entered with a
\* piece index past the last entry.
AtTerminalSuccess ==
    /\ pc = "search"
    /\ stack # <<>>
    /\ Top(Config).at = "entry"
    /\ Top(Config).piece_idx >= Len(pieces_to_place)

\* The piece type (index into shapes, from 1) of the placement frame k holds.
PlacedType(k) == pieces_to_place[stack[k].piece_idx + 1][1] + 1

\* C17: when the search reaches its base case the placements in force are
\* exactly the required instances: of every piece type as many as the
\* region requires, each a rotation or reflection of that type's picture
\* and an entry of its variant list, and filled_cells is the number of
\* cells the region asks for.
C17_SuccessPlacesAll ==
    AtTerminalSuccess =>
        /\ \A i \in DOMAIN shapes :
              Cardinality({k \in PlacedFrames : PlacedType(k) = i}) = region.required[i]
        /\ \A k \in PlacedFrames :
              /\ Anchored(PlacedCells(k)) \in ImageSets(shapes[PlacedType(k)])
              /\ Contains(variants_list[PlacedType(k)],
                          ShapeVariants(Config, stack[k])[stack[k].v + 1])
        /\ Cardinality(PlacedFrames) = Len(Instances(region))
        /\ grid.filled_cells = Demand(region)
        /\ Cardinality(SetBits(grid)) = Demand(region)

\* The base case is reached with three or more instances of two types
\* placed.
C17_Witness ==
    /\ AtTerminalSuccess
    /\ Cardinality(PlacedFrames) >= 3
    /\ \A i \in DOMAIN shapes : region.required[i] > 0

\* C18: undo discipline.  In every step of a search: a remove is called
\* with the shape, x and y of the latest place not yet removed, by the call
\* of can_fit_presents that made that place, and clears exactly its cells;
\* a place adds exactly its cells and becomes the latest; no other step
\* touches the grid; the placements not yet removed were made by calls
\* still running, one inside the other; and when a call returns no
\* placement it made is left.
C18_UndoDiscipline ==
    [][(pc = "search" /\ stack # <<>>) =>
          /\ (grid'.filled_cells < grid.filled_cells) =>
                /\ held # <<>>
                /\ held[Len(held)].args = RemoveArgs(Config)
                /\ held[Len(held)].depth = Len(stack)
                /\ SetBits(grid') \subseteq SetBits(grid)
                /\ SetBits(grid) \ SetBits(grid') =
                      Covered(held[Len(held)].args.shape,
                              held[Len(held)].args.x, held[Len(held)].args.y)
                /\ held' = SubSeq(held, 1, Len(held) - 1)
          /\ (grid'.filled_cells > grid.filled_cells) =>
                /\ held' = Append(held, [args |-> PlaceArgs(Config), depth |-> Len(stack)])
                /\ SetBits(grid) \subseteq SetBits(grid')
                /\ SetBits(grid') \ SetBits(grid) =
                      Covered(PlaceArgs(Config).shape, PlaceArgs(Config).x,
                              PlaceArgs(Config).y)
          /\ (grid'.filled_cells = grid.filled_cells) => (grid' = grid /\ held' = held)
          /\ \A i \in DOMAIN held : held[i].depth <= Len(stack)
          /\ \A i, j \in DOMAIN held : i < j => held[i].depth < held[j].depth
          /\ (Len(stack') < Len(stack)) =>
                \A i \in DOMAIN held' : held'[i].depth < Len(stack)
          /\ (stack' = <<>>) => held' = <<>>]_vars

\* A placement has been removed while two earlier ones were still held.
C18_Witness ==
    /\ pc = "search"
    /\ Len(held) = 2
    /\ Len(stack) = 3
    /\ stack[3].at = "loop"
    /\ stack[3].y + stack[3].x + stack[3].v > 0
    /\ places >= 3

\* The count the region requires of the piece type at index idx (from 0) of
\* pieces_to_place.
RequiredAt(idx) == region.required[pieces_to_place[idx + 1][1] + 1]

\* C19: a call made after a placement keeps the piece index and has one
\* copy less to place when the caller had more than one copy left, and
\* otherwise has the next piece index and all the copies the region
\* requires of that type; the outermost call starts at index 0 with all
\* copies of the first type; so every call whose piece index is inside
\* the list has between 1 and the required count of copies left.
C19_CopiesAndIndex ==
    pc = "search" =>
        /\ \A i \in DOMAIN stack :
              i + 1 \in DOMAIN stack =>
                  /\ stack[i].at = "call"
                  /\ IF stack[i].pieces_remaining > 1
                     THEN /\ stack[i + 1].piece_idx = stack[i].piece_idx
                          /\ stack[i + 1].pieces_remaining = stack[i].pieces_remaining - 1
                     ELSE /\ stack[i + 1].piece_idx = stack[i].piece_idx + 1
                          /\ stack[i + 1].piece_idx < Len(pieces_to_place) =>
                                stack[i + 1].pieces_remaining =
                                    RequiredAt(stack[i + 1].piece_idx)
        /\ (stack # <<>> /\ pieces_to_place # <<>>) =>
              (stack[1].piece_idx = 0 /\ stack[1].pieces_remaining = RequiredAt(0))
        /\ \A i \in DOMAIN stack :
              stack[i].piece_idx < Len(pieces_to_place) =>
                  /\ stack[i].pieces_remaining >= 1
                  /\ stack[i].pieces_remaining <= RequiredAt(stack[i].piece_idx)

\* Calls three deep: the second has a copy less of the first type, the
\* third the next type with both its copies.
C19_Witness ==
    /\ pc = "search"
    /\ Len(stack) >= 3
    /\ stack[1].pieces_remaining = 2
    /\ stack[2].piece_idx = 0
    /\ stack[2].pieces_remaining = 1
    /\ stack[3].piece_idx = 1
    /\ stack[3].pieces_remaining = 2

(***************************************************************************)
(* The candidates of a call as triples <<y, x, v>> and their lexicographic *)
(* order, stated apart from the loops.                                     *)
(***************************************************************************)
Candidates(g, nv) == (0..g.height - 1) \X (0..g.width - 1) \X (0..nv - 1)

Lex3Less(a, b) ==
    \/ a[1] < b[1]
    \/ a[1] = b[1] /\ a[2] < b[2]
    \/ a[1] = b[1] /\ a[2] = b[2] /\ a[3] < b[3]

Pos(f) == <<f.y, f.x, f.v>>

\* nxt is the least candidate of C above cur, or past the last row when
\* cur is the greatest.
IsNextAfter(cur, nxt, C, height) ==
    IF \E c \in C : Lex3Less(cur, c)
    THEN /\ nxt \in C
         /\ Lex3Less(cur, nxt)
         /\ \A c \in C : Lex3Less(cur, c) => ~Lex3Less(c, nxt)
    ELSE nxt[1] >= height

\* C20: the search order is fixed.  A call tries its candidates in strictly
\* increasing lexicographic order of (y, x, variant index), starting at
\* (0, 0, 0) and leaving none out; it places a candidate exactly when its
\* cells lie in the region and are free; it returns false from its loops
\* only past the last candidate; no step touches the loop variables of
\* the calls below; and every step of the search is a function of the
\* configuration it starts from, so two runs on the same region and
\* pieces make the same places and removes and reach the same verdict.
C20_FixedSearchOrder ==
    [][(pc = "search" /\ stack # <<>>) =>
          LET f == Top(Config)
              n == Len(stack)
              C == Candidates(grid, Len(ShapeVariants(Config, f)))
          IN  /\ (f.at = "entry" /\ Len(stack') = n) =>
                    (stack'[n].at = "loop" /\ Pos(stack'[n]) = <<0, 0, 0>>)
              /\ (f.at # "entry" /\ Len(stack') = n) =>
                    /\ stack'[n].at = "loop"
                    /\ Pos(f) \in C
                    /\ IsNextAfter(Pos(f), Pos(stack'[n]), C, grid.height)
              /\ (f.at = "loop" /\ Pos(f) \in C) =>
                    (Len(stack') > n <=>
                        LET a == PlaceArgs(Config)
                        IN  /\ Covered(a.shape, a.x, a.y) \subseteq
                                  RegionCells(grid.width, grid.height)
                            /\ Covered(a.shape, a.x, a.y) \cap SetBits(grid) = {})
              /\ (Len(stack') > n) =>
                    /\ f.at = "loop"
                    /\ Pos(f) \in C
                    /\ stack'[n] = [f EXCEPT !.at = "call"]
                    /\ grid'.filled_cells > grid.filled_cells
              /\ (f.at = "loop" /\ Len(stack') < n) =>
                    (Pos(f) \notin C /\ f.y >= grid.height /\ ret' = <<FALSE>>)
              /\ \A i \in DOMAIN stack' : i < n => stack'[i] = stack[i]
              /\ [variants_list   |-> variants_list',
                  pieces_to_place |-> pieces_to_place',
                  grid |-> grid', stack |-> stack', ret |-> ret',
                  places |-> places'] = SearchStep(Config)]_vars

\* A call stands at a later variant in a later row after placements were
\* made.
C20_Witness ==
    /\ pc = "search"
    /\ stack # <<>>
    /\ Top(Config).at = "loop"
    /\ Top(Config).y > 0
    /\ Top(Config).v > 0
    /\ places >= 2

\* C21: short-circuit.  When a recursive call has returned true, the call
\* that made it does one thing: it removes the candidate it had placed, and
\* only that one, and returns true itself.  It tests and places no further
\* candidate, and so on up to the outermost call: from the first success
\* on, no call stands in its loops and the count of placements made stays
\* as it is.
C21_ShortCircuit ==
    [][(pc = "search" /\ ret = <<TRUE>> /\ stack # <<>>) =>
          /\ Top(Config).at = "call"
          /\ stack' = SubSeq(stack, 1, Len(stack) - 1)
          /\ ret' = <<TRUE>>
          /\ places' = places
          /\ held # <<>>
          /\ held' = SubSeq(held, 1, Len(held) - 1)
          /\ SetBits(grid') \subseteq SetBits(grid)
          /\ SetBits(grid) \ SetBits(grid') =
                Covered(held[Len(held)].args.shape,
                        held[Len(held)].args.x, held[Len(held)].args.y)
          /\ grid'.filled_cells =
                grid.filled_cells - Cardinality(SetBits(grid) \ SetBits(grid'))
          /\ \A i \in DOMAIN stack' : stack'[i].at = "call"]_vars

\* Success is on its way up: a call two levels below the outermost one has
\* returned true, at a candidate that is not the last of its caller.
C21_Witness ==
    /\ pc = "search"
    /\ ret = <<TRUE>>
    /\ Len(stack) = 2
    /\ Top(Config).at = "call"
    /\ \E c \in Candidates(grid, Len(ShapeVariants(Config, Top(Config)))) :
          Lex3Less(Pos(Top(Config)), c)

\* C22: the recursion is no deeper than the instances the region asks for.
\* Every call below the outermost one was made right after one instance was
\* placed, and those instances are still in place: while a call runs, the
\* calls below the outermost one are as many as the placements in force
\* (one fewer once the innermost has returned and its instance is not yet
\* removed), every frame but the last waits on the call it made, and
\* neither number ever exceeds the sum of the required counts.
C22_DepthBounded ==
    (pc = "search" /\ stack # <<>>) =>
        /\ Len(stack) - 1 <= SumSeq(region.required)
        /\ Len(held) <= SumSeq(region.required)
        /\ Len(held) = IF ret = <<>> THEN Len(stack) - 1 ELSE Len(stack)
        /\ Len(held) = Cardinality(PlacedFrames)
        /\ \A i \in 1..(Len(stack) - 1) : stack[i].at = "call"
        /\ \A i \in DOMAIN held : held[i].depth = i
        /\ grid.filled_cells = SumSeq([i \in DOMAIN held |-> Len(held[i].args.shape)])

\* The deepest recursion there is: every required instance, three or more,
\* is placed and the call below the last of them is entered.
C22_Witness ==
    /\ pc = "search"
    /\ stack # <<>>
    /\ SumSeq(region.required) >= 3
    /\ Len(stack) - 1 = SumSeq(region.required)
    /\ Top(Config).at = "entry"

(***************************************************************************)
(* can_fit_presents called by any caller.  The function is an ordinary     *)
(* function of the file: a caller passes it a grid, a list of pieces in    *)
(* any order and a cell demand of its choice.  This specification makes    *)
(* the outermost call without the quick check of part_one, on a fresh      *)
(* grid, with the pieces of a region in any order and with a demand that   *)
(* is the pieces' cell count or up to MaxExtra cells more (a lower demand  *)
(* would take total_cells_needed below zero in line 224), and runs it to   *)
(* its return.                                                             *)
(***************************************************************************)
MaxExtra == 2

CallLibrary == <<PicSingle, PicDomino, PicTromino, PicBar>>

\* Every order of the entries of pieces.
Orders(pieces) ==
    LET n     == Len(pieces)
        perms == {p \in [1..n -> 1..n] : \A i, j \in 1..n : i # j => p[i] # p[j]}
    IN  {[i \in 1..n |-> pieces[p[i]]] : p \in perms}

InitCall ==
    /\ pc = "search"
    /\ \E a \in DOMAIN CallLibrary, b \in DOMAIN CallLibrary :
          /\ a < b
          /\ shapes = <<FromLines(CallLibrary[a]), FromLines(CallLibrary[b])>>
    /\ variants_list = [i \in DOMAIN shapes |-> rotations_and_flips(shapes[i])]
    /\ valid_regions = 0
    /\ \E w \in 1..MaxW, h \in 1..MaxH, required \in [DOMAIN shapes -> 0..MaxCount],
          extra \in 0..MaxExtra :
          /\ region = [width |-> w, height |-> h, required |-> required]
          /\ pieces_to_place \in Orders(BuildPieces(required, 1))
          /\ last = [op |-> "call", extra |-> extra]
    /\ LET c == StartSearch(variants_list, pieces_to_place, region)
       IN  /\ grid = c.grid
           /\ stack = <<[c.stack[1] EXCEPT !.total_cells_needed = @ + last.extra]>>
           /\ ret = c.ret
           /\ places = c.places
    /\ ti = 0
    /\ unique_variants = <<>>
    /\ held = <<>>

NextCall ==
    \/ CallEntry
    \/ TryCandidate
    \/ AfterCall

SpecCall == InitCall /\ [][NextCall]_vars

\* C23: the pruning rule.  A call whose piece index is inside the list and
\* that finds fewer free cells in the grid than total_cells_needed returns
\* false at once: its frame is gone in that very step, the grid and the
\* placements are as they were, no candidate was tested and none placed.
C23_PruneReturnsAtOnce ==
    [][(/\ pc = "search"
        /\ stack # <<>>
        /\ Top(Config).at = "entry"
        /\ Top(Config).piece_idx < Len(pieces_to_place)
        /\ grid.total_cells - grid.filled_cells < Top(Config).total_cells_needed) =>
          /\ stack' = SubSeq(stack, 1, Len(stack) - 1)
          /\ ret' = <<FALSE>>
          /\ grid' = grid
          /\ places' = places
          /\ held' = held]_vars

\* A call was pruned although its pieces fit: the pieces cover no more
\* cells than the region has and can be laid into it, the caller asked for
\* more cells than the region has, and the call has returned false without
\* a single placement.
C23_Witness ==
    /\ pc = "search"
    /\ last.op = "call"
    /\ stack = <<>>
    /\ ret = <<FALSE>>
    /\ places = 0
    /\ pieces_to_place # <<>>
    /\ Demand(region) <= grid.total_cells
    /\ Demand(region) + last.extra > grid.total_cells
    /\ Packable(region)

(***************************************************************************)
(* Grid with a caller that breaks the contract of place once.  The caller  *)
(* places and removes as the contract asks, and then calls place with a    *)
(* shape whose cells are all inside the grid and one of which, at least,   *)
(* is occupied, without asking can_place.  place returns nothing, so all   *)
(* there is to observe is the grid it leaves.                              *)
(***************************************************************************)
GridPlaceUnchecked ==
    /\ pc = "grid"
    /\ \E shape \in AllVariants(variants_list),
          x \in Offsets(grid.width), y \in Offsets(grid.height) :
         /\ Covered(shape, x, y) \subseteq RegionCells(grid.width, grid.height)
         /\ \E c \in Covered(shape, x, y) : is_occupied(grid, c[1], c[2])
         /\ grid' = place(grid, shape, x, y)
         /\ last' = [op |-> "misplace", shape |-> shape, x |-> x, y |-> y, before |-> grid]
    /\ pc' = "misused"
    /\ UNCHANGED <<shapes, variants_list, valid_regions, region, pieces_to_place,
                   stack, ret, places, ti, unique_variants, held>>

NextMisuse == GridPlace \/ GridRemove \/ GridPlaceUnchecked

SpecMisuse == InitGrid /\ [][NextMisuse]_vars

\* C24: place checks nothing.  Called where can_place is false because a
\* cell it covers is occupied already, it completes as any other call: the
\* bits of the cells it covers are set, those set before stay set, and
\* filled_cells grows by the full cell count of the shape.  The grid it
\* leaves has filled_cells greater than the number of its set bits, by the
\* number of covered cells that were occupied.
C24_PlaceUnchecked ==
    (pc = "misused") =>
        LET before  == last.before
            covered == Covered(last.shape, last.x, last.y)
        IN  /\ last.op = "misplace"
            /\ ~can_place(before, last.shape, last.x, last.y)
            /\ before.filled_cells = Cardinality(SetBits(before))
            /\ grid.width = before.width
            /\ grid.height = before.height
            /\ grid.total_cells = before.total_cells
            /\ NoStrayBits(grid)
            /\ SetBits(grid) = SetBits(before) \cup covered
            /\ grid.filled_cells = before.filled_cells + Len(last.shape)
            /\ grid.filled_cells > Cardinality(SetBits(grid))
            /\ grid.filled_cells - Cardinality(SetBits(grid)) =
                  Cardinality(covered \cap SetBits(before))

\* place was called on cells all of which were occupied: filled_cells is
\* twice the number of set bits.
C24_Witness ==
    /\ pc = "misused"
    /\ last.op = "misplace"
    /\ Covered(last.shape, last.x, last.y) \subseteq SetBits(last.before)
    /\ grid.filled_cells = 2 * Cardinality(SetBits(grid))

\* C25: in a search started by part_one the demand is carried exactly.  At
\* the entry of every call, filled_cells plus total_cells_needed is the
\* cell demand of the region, the quick check has seen to it that this is
\* no more than total_cells, and so the free cells are never fewer than
\* total_cells_needed: the early termination of line 209 never fires.
C25_DemandCarried ==
    (pc = "search" /\ stack # <<>>) =>
        /\ Demand(region) <= grid.total_cells
        /\ \A i \in DOMAIN stack :
              /\ stack[i].entry.filled_cells + stack[i].total_cells_needed = Demand(region)
              /\ stack[i].entry.total_cells = grid.total_cells
              /\ ~(stack[i].entry.total_cells - stack[i].entry.filled_cells
                      < stack[i].total_cells_needed)
        /\ Top(Config).at = "entry" =>
              /\ Top(Config).entry = grid
              /\ grid.filled_cells + Top(Config).total_cells_needed = Demand(region)
              /\ ~(grid.total_cells - grid.filled_cells < Top(Config).total_cells_needed)

\* The closest the early termination comes to firing: a call two or more
\* levels down, with pieces still to place, is entered with exactly as many
\* free cells as it needs.
C25_Witness ==
    /\ pc = "search"
    /\ Len(stack) >= 3
    /\ Top(Config).at = "entry"
    /\ Top(Config).piece_idx < Len(pieces_to_place)
    /\ grid.total_cells - grid.filled_cells = Top(Config).total_cells_needed

\* C26: no subtraction of the search goes below zero.  In every state of a
\* search started by part_one, filled_cells is between 0 and total_cells
\* (line 209); every call that has placed a piece had a total_cells_needed
\* of at least the cell count of that piece, so what line 224 passed on is
\* not negative; and while a placement is in force filled_cells is at
\* least the cell count of the piece that line 251 will remove.
C26_NoUnderflow ==
    (pc = "search") =>
        /\ 0 <= grid.filled_cells
        /\ grid.filled_cells <= grid.total_cells
        /\ \A i \in DOMAIN stack :
              /\ stack[i].total_cells_needed >= 0
              /\ stack[i].entry.filled_cells <= stack[i].entry.total_cells
              /\ stack[i].at = "call" =>
                    /\ stack[i].total_cells_needed
                          >= Len(ShapeVariants(Config, stack[i])[1])
                    /\ i < Len(stack) =>
                          stack[i + 1].total_cells_needed =
                             stack[i].total_cells_needed
                                - Len(ShapeVariants(Config, stack[i])[1])
                    /\ grid.filled_cells
                          >= Len(ShapeVariants(Config, stack[i])[stack[i].v + 1])

\* Both differences come out as zero: the last instance fills the grid, the
\* call made after it was passed a demand of 0, and removing the instances
\* in force takes filled_cells back to exactly 0.
C26_Witness ==
    /\ pc = "search"
    /\ Len(stack) >= 3
    /\ Top(Config).at = "entry"
    /\ Top(Config).total_cells_needed = 0
    /\ grid.filled_cells = grid.total_cells
    /\ grid.filled_cells =
          SumSeq([i \in DOMAIN held |-> Len(held[i].args.shape)])

\* C27: the verdict does not depend on the order of pieces_to_place.  For
\* the pieces of a region given in any order (sorted by count or not, ties
\* either way) and the demand that part_one passes, the cell total is the
\* same in every order, and the call returns true exactly when the required
\* instances can be laid into the region, which is a property of the region
\* and its counts alone: two orders of the same pieces never get different
\* verdicts.  A region the quick check of part_one rejects is one this call
\* rejects at its entry, in every order.
C27_OrderIndependent ==
    (pc = "search" /\ last.op = "call" /\ last.extra = 0) =>
        /\ \A q \in Orders(pieces_to_place) :
              /\ q \in Orders(BuildPieces(region.required, 1))
              /\ TotalCellsNeeded(variants_list, q) = Demand(region)
              /\ TooLarge(TotalCellsNeeded(variants_list, q), region)
                    <=> TooLarge(Demand(region), region)
        /\ stack = <<>> =>
              /\ Len(ret) = 1
              /\ ret[1] <=> Packable(region)
              /\ TooLarge(Demand(region), region) => (~ret[1] /\ places = 0)

\* A search has returned true for three instances given in ascending order
\* of count, an order the sort of part_one never leaves.
C27_Witness ==
    /\ pc = "search"
    /\ last.op = "call"
    /\ last.extra = 0
    /\ stack = <<>>
    /\ ret = <<TRUE>>
    /\ Len(pieces_to_place) = 2
    /\ pieces_to_place[1][2] < pieces_to_place[2][2]
    /\ places >= 3

\* A search has returned false after placements for two pieces of equal
\* count given in the reverse of their order in the input.
C27_WitnessInfeasible ==
    /\ pc = "search"
    /\ last.op = "call"
    /\ last.extra = 0
    /\ stack = <<>>
    /\ ret = <<FALSE>>
    /\ Len(pieces_to_place) = 2
    /\ pieces_to_place[1][2] = pieces_to_place[2][2]
    /\ pieces_to_place[1][1] > pieces_to_place[2][1]
    /\ places > 0

\* C28: every variant has the cells of the base shape, as many and none
\* twice.  At every point of the loop of rotations_and_flips and in what it
\* returns, each variant lists as many cells as the base shape, no cell
\* twice, so all variants of a shape have the cell count of variant 0: the
\* count used for the demand total and for the decrement after a placement
\* is the count of the variant that place and remove are given.
C28_VariantsKeepCellCount ==
    (pc \in {"rot", "rot_done"}) =>
        /\ NoRepeat(shapes[1])
        /\ \A i \in DOMAIN unique_variants :
              /\ Len(unique_variants[i]) = Len(shapes[1])
              /\ NoRepeat(unique_variants[i])
              /\ Cardinality(Range(unique_variants[i])) = Cardinality(Range(shapes[1]))
              /\ Len(unique_variants[i]) = Len(unique_variants[1])
        /\ pc = "rot_done" =>
              /\ variants_list[1] = unique_variants
              /\ variants_list[1] # <<>>

\* A shape of four cells or more has eight variants, so variants other
\* than variant 0 exist to be placed.
C28_Witness ==
    /\ pc = "rot_done"
    /\ Len(shapes[1]) >= 4
    /\ Len(variants_list[1]) = NumTransforms
    /\ \A i \in DOMAIN variants_list[1] : Len(variants_list[1][i]) = Len(shapes[1])

\* The cells of list v after transformation t of the table.
Transformed(t, v) == [k \in DOMAIN v |-> Transform(t, v[k])]

\* C29: the variants of a shape are closed under the table.  Whatever
\* variant is taken and whatever transformation is applied to it, the
\* normalized result is one of the variants again; the variants are 1, 2, 4
\* or 8 in number; and rotations_and_flips returns the same set of variants
\* when it is given any variant, or any transformed copy of the base shape,
\* in place of the base shape.
C29_VariantsClosed ==
    (pc = "rot_done") =>
        LET cells == shapes[1]
            vs    == variants_list[1]
        IN  /\ \A i \in DOMAIN vs, t \in 1..NumTransforms :
                  Contains(vs, normalize(Transformed(t, vs[i])))
            /\ Len(vs) \in {1, 2, 4, 8}
            /\ \A i \in DOMAIN vs : Range(rotations_and_flips(vs[i])) = Range(vs)
            /\ \A t \in 1..NumTransforms :
                  Range(rotations_and_flips(Transformed(t, cells))) = Range(vs)

\* A shape with exactly one symmetry: four variants, each of which the
\* table maps onto the four.
C29_Witness ==
    /\ pc = "rot_done"
    /\ Len(variants_list[1]) = 4
    /\ Len(shapes[1]) >= 3
    /\ \A i \in DOMAIN variants_list[1] :
          {normalize(Transformed(t, variants_list[1][i])) : t \in 1..NumTransforms}
             = Range(variants_list[1])

\* The bit index is_occupied computes for (x, y) in grid g.
BitIndex(g, x, y) == y * g.width + x

\* C30: can_place reads no bit for a coordinate outside the grid.  For every
\* grid a caller can build, every shape and every offset, on and beyond
\* every edge, each coordinate can_place passes to is_occupied is a cell of
\* the grid, so its bit index is below total_cells and inside the words of
\* occupied; and the reads account for the result: can_place is true
\* exactly when every cell of the shape was read and found free.
C30_ReadsInsideGrid ==
    (pc = "grid") =>
        \A shape \in AllVariants(variants_list),
           x \in Offsets(grid.width), y \in Offsets(grid.height) :
            LET reads == CanPlaceReads(grid, shape, x, y, 1)
            IN  /\ \A k \in DOMAIN reads :
                      /\ reads[k] \in RegionCells(grid.width, grid.height)
                      /\ reads[k] = <<x + shape[k][1], y + shape[k][2]>>
                      /\ BitIndex(grid, reads[k][1], reads[k][2]) \in 0..(grid.total_cells - 1)
                      /\ (BitIndex(grid, reads[k][1], reads[k][2]) \div WordBits) + 1
                            \in DOMAIN grid.occupied
                /\ can_place(grid, shape, x, y) <=>
                      /\ Len(reads) = Len(shape)
                      /\ \A k \in DOMAIN reads : ~is_occupied(grid, reads[k][1], reads[k][2])

\* A shape reaches over the right edge where y * width + x is the index of
\* a bit of the next row, and that bit is set: can_place has read the
\* shape's cells inside the grid, has not read that bit, and is false.
C30_Witness ==
    /\ pc = "grid"
    /\ \E shape \in AllVariants(variants_list),
          x \in Offsets(grid.width), y \in Offsets(grid.height) :
          /\ CanPlaceReads(grid, shape, x, y, 1) # <<>>
          /\ Len(CanPlaceReads(grid, shape, x, y, 1)) < Len(shape)
          /\ ~can_place(grid, shape, x, y)
          /\ \A k \in DOMAIN CanPlaceReads(grid, shape, x, y, 1) :
                ~is_occupied(grid, x + shape[k][1], y + shape[k][2])
          /\ \E i \in DOMAIN shape :
                /\ x + shape[i][1] >= grid.width
                /\ BitIndex(grid, x + shape[i][1], y + shape[i][2])
                      \in 0..(grid.total_cells - 1)
                /\ TestBit(grid.occupied[1],
                           BitIndex(grid, x + shape[i][1], y + shape[i][2]))

====
